---- MODULE Spec2Model ----
(***************************************************************************)
(* A model of the two scripts of gphoto2youtube:                           *)
(*   concat_videos.py     - scan a directory, sort, write the ffmpeg       *)
(*                          manifest, run ffmpeg, clean up;                *)
(*   upload_to_youtube.py - load / refresh / obtain the credential, then   *)
(*                          a resumable upload polled with next_chunk.     *)
(* Each script is a sequential program; its position is a program counter  *)
(* and each step of main (or of the function main calls) is one action.    *)
(* File names and paths are sequences of character codes, so that          *)
(* str.lower(), Path.suffix and the code-point order of sorted() are       *)
(* computed as Python computes them.                                       *)
(***************************************************************************)
EXTENDS Integers, Sequences, FiniteSets, TLC

VARIABLES
    \* ---- concat_videos.py
    input_dir_exists,   \* Path(args.input_dir).exists()
    listing,            \* what dir_path.iterdir() yields, in its order
    keep_list,          \* args.keep_list
    ffmpeg,             \* the tool on this system: "absent", "broken", "ok"
    files,              \* concat_list.txt (present?, its lines) and args.output on disk
    files0,             \* the same two files as the run found them
    video_files,        \* main's video_files (names)
    sorted_videos,      \* main's sorted_videos (names)
    cpc,                \* position in concat_videos.py's main
    cexit,              \* exit code of the concatenator, NotExited while running
    clog,               \* the side effects of the run, in order
    \* ---- upload_to_youtube.py
    video_file_exists,  \* os.path.exists(args.video_file)
    token_file,         \* token.pickle on disk
    token_file0,        \* token.pickle as the run found it
    credentials,        \* get_authenticated_service's credentials
    loaded,             \* the credential as pickle.load returned it
    remaining,          \* chunks the service still wants before it answers
    response,           \* upload_video's response: None, or the id of the resource
    returned,           \* what upload_video returned
    upc,                \* position in upload_to_youtube.py's main
    uexit,              \* exit code of the uploader, NotExited while running
    ulog,               \* the external interactions of the run, in order
    printed             \* what upload_video / main printed, in order

cvars == <<input_dir_exists, listing, keep_list, ffmpeg, files, files0,
           video_files, sorted_videos, cpc, cexit, clog>>
uvars == <<video_file_exists, token_file, token_file0, credentials, loaded,
           remaining, response, returned, upc, uexit, ulog, printed>>
vars == <<cvars, uvars>>

\* ---- bounds
MaxEntries == 3
MaxChunks == 3

\* no exit code yet: the process is still running
NotExited == 0 - 1
None == "None"

(***************************************************************************)
(* Strings as sequences of character codes.                                *)
(*   '.' 46   ''' 39   ' ' 32   '\n' 10   '/' 47   'A'..'Z' 65..90         *)
(*   'a'..'z' 97..122   '4' 52                                             *)
(***************************************************************************)
\* str.lower() on the codes: A..Z -> a..z
Lower(s) == [k \in 1..Len(s) |-> IF s[k] >= 65 /\ s[k] <= 90 THEN s[k] + 32 ELSE s[k]]

\* Python's str < str: code-point lexicographic order
RECURSIVE StrLess(_, _)
StrLess(a, b) ==
    IF b = <<>> THEN FALSE
    ELSE IF a = <<>> THEN TRUE
    ELSE IF Head(a) # Head(b) THEN Head(a) < Head(b)
    ELSE StrLess(Tail(a), Tail(b))

\* name.rfind('.'), 1-based, 0 when there is no dot
RFindDot(name) ==
    LET dots == {k \in 1..Len(name) : name[k] = 46}
    IN  IF dots = {} THEN 0 ELSE CHOOSE k \in dots : \A j \in dots : j <= k

\* pathlib's PurePath.suffix: i = name.rfind('.'); name[i:] if 0 < i < len(name) - 1
Suffix(name) ==
    LET i == RFindDot(name)
    IN  IF 1 < i /\ i < Len(name) THEN SubSeq(name, i, Len(name)) ELSE <<>>

\* .mp4 .mov .avi .mkv .m4v .flv .wmv
VIDEO_EXTENSIONS ==
    { <<46, 109, 112, 52>>, <<46, 109, 111, 118>>, <<46, 97, 118, 105>>,
      <<46, 109, 107, 118>>, <<46, 109, 52, 118>>, <<46, 102, 108, 118>>,
      <<46, 119, 109, 118>> }

(***************************************************************************)
(* The directory entries a run may find.                                   *)
(*   b.mp4 (file)   a.MOV (file)   B.mkv (file)   c.txt (file)             *)
(*   d.mp4 (a subdirectory)   .mp4 (a file with no stem)                   *)
(***************************************************************************)
EntryPool ==
    { [name |-> <<98, 46, 109, 112, 52>>,   is_file |-> TRUE],
      [name |-> <<97, 46, 77, 79, 86>>,     is_file |-> TRUE],
      [name |-> <<66, 46, 109, 107, 118>>,  is_file |-> TRUE],
      [name |-> <<99, 46, 116, 120, 116>>,  is_file |-> TRUE],
      [name |-> <<100, 46, 109, 112, 52>>,  is_file |-> FALSE],
      [name |-> <<46, 109, 112, 52>>,       is_file |-> TRUE] }

\* iterdir() yields each entry once, in an arbitrary order
Listings ==
    { s \in UNION { [1..n -> EntryPool] : n \in 0..MaxEntries } :
        \A i, j \in 1..Len(s) : i # j => s[i] # s[j] }

\* ---- find_videos
\* a find_videos that forgets file_path.is_file()
IsVideo_NoFileCheck(e) == Lower(Suffix(e.name)) \in VIDEO_EXTENSIONS

IsVideo(e) == e.is_file /\ Lower(Suffix(e.name)) \in VIDEO_EXTENSIONS

RECURSIVE Scan(_)
Scan(entries) ==
    IF entries = <<>> THEN <<>>
    ELSE IF IsVideo(Head(entries)) THEN <<Head(entries).name>> \o Scan(Tail(entries))
    ELSE Scan(Tail(entries))

find_videos(exists, entries) == IF ~exists THEN <<>> ELSE Scan(entries)

\* ---- sort_videos_by_name: sorted(video_files, key=lambda x: x.name), stable
RECURSIVE InsertByName(_, _)
InsertByName(x, s) ==
    IF s = <<>> THEN <<x>>
    ELSE IF StrLess(x, Head(s)) THEN <<x>> \o s
    ELSE <<Head(s)>> \o InsertByName(x, Tail(s))

\* a sort_videos_by_name that returns the list in listing order
sort_videos_unsorted(s) == s

RECURSIVE sort_videos_by_name(_)
sort_videos_by_name(s) ==
    IF s = <<>> THEN <<>>
    ELSE InsertByName(s[Len(s)], sort_videos_by_name(SubSeq(s, 1, Len(s) - 1)))

\* ---- create_concat_file
\* video_file.resolve(): the absolute path, here /w/tmp/<name>
Resolve(name) == <<47, 119, 47, 116, 109, 112, 47>> \o name

\* f"file '{abs_path}'\n"
ManifestLine(name) == <<102, 105, 108, 101, 32, 39>> \o Resolve(name) \o <<39, 10>>

create_concat_file(names) == [k \in 1..Len(names) |-> ManifestLine(names[k])]

\* a manifest an earlier run left behind
StaleManifest == << <<111, 108, 100, 10>> >>

(***************************************************************************)
(* upload_to_youtube.py: the credential                                    *)
(* present = FALSE is Python's None; token, expired and refresh_token are  *)
(* what the Credentials object answers.                                    *)
(***************************************************************************)
NoCredentials == [present |-> FALSE, token |-> FALSE, expired |-> FALSE, refresh_token |-> FALSE]

CachedCredentials == [present : {TRUE}, token : BOOLEAN, expired : BOOLEAN, refresh_token : BOOLEAN]

\* google.oauth2 Credentials.valid: a token that is not expired
Valid(c) == c.token /\ ~c.expired

\* the ids the service may answer with
VideoIds == {"vidA", "vidB"}

(***************************************************************************)
(* concat_videos.py: main                                                  *)
(***************************************************************************)
Range(s) == {s[k] : k \in 1..Len(s)}

\* The arguments and the environment of a run.  args.input_dir names a
\* directory or nothing; directory entries are not symbolic links; the working
\* directory is writable, so open(), stat() and os.remove() do not raise.
CInit ==
    /\ input_dir_exists \in BOOLEAN
    /\ listing \in (IF input_dir_exists THEN Listings ELSE {<<>>})
    /\ keep_list \in BOOLEAN
    /\ ffmpeg \in {"absent", "broken", "ok"}
    /\ files \in { [has_manifest |-> h, manifest |-> IF h THEN StaleManifest ELSE <<>>, output |-> o] :
                     h \in BOOLEAN, o \in {"absent", "old"} }
    /\ files0 = files
    /\ video_files = <<>>
    /\ sorted_videos = <<>>
    /\ cpc = "find"
    /\ cexit = NotExited
    /\ clog = <<>>

\* sys.exit(code)
CExit(code) ==
    /\ cexit' = code
    /\ cpc' = "exit"

\* video_files = find_videos(args.input_dir)
FindVideos ==
    /\ cpc = "find"
    /\ video_files' = find_videos(input_dir_exists, listing)
    /\ cpc' = "check_found"
    /\ UNCHANGED uvars
    /\ UNCHANGED <<input_dir_exists, listing, keep_list, ffmpeg, files, files0,
                   sorted_videos, cexit, clog>>

\* if not video_files: ... sys.exit(1)
CheckFound ==
    /\ cpc = "check_found"
    /\ IF video_files = <<>>
         THEN CExit(1)
         ELSE cpc' = "sort" /\ UNCHANGED cexit
    /\ UNCHANGED uvars
    /\ UNCHANGED <<input_dir_exists, listing, keep_list, ffmpeg, files, files0,
                   video_files, sorted_videos, clog>>

\* sorted_videos = sort_videos_by_name(video_files)
SortVideos ==
    /\ cpc = "sort"
    /\ sorted_videos' = sort_videos_by_name(video_files)
    /\ cpc' = "create_list"
    /\ UNCHANGED uvars
    /\ UNCHANGED <<input_dir_exists, listing, keep_list, ffmpeg, files, files0,
                   video_files, cexit, clog>>

\* create_concat_file(sorted_videos, concat_list_file): open(..., 'w') and one line per file
CreateConcatFile ==
    /\ cpc = "create_list"
    /\ files' = [files EXCEPT !.has_manifest = TRUE,
                            !.manifest = create_concat_file(sorted_videos)]
    /\ clog' = Append(clog, "write_manifest")
    /\ cpc' = "check_ffmpeg"
    /\ UNCHANGED uvars
    /\ UNCHANGED <<input_dir_exists, listing, keep_list, ffmpeg, files0,
                   video_files, sorted_videos, cexit>>

\* concat_videos, first half: subprocess.run(['ffmpeg', '-version'], check=True);
\* FileNotFoundError (no such program) and CalledProcessError both end in sys.exit(1)
CheckFfmpeg ==
    /\ cpc = "check_ffmpeg"
    /\ clog' = Append(clog, "ffmpeg_version")
    /\ IF ffmpeg = "ok"
         THEN cpc' = "run_ffmpeg" /\ UNCHANGED cexit
         ELSE CExit(1)
    /\ UNCHANGED uvars
    /\ UNCHANGED <<input_dir_exists, listing, keep_list, ffmpeg, files, files0,
                   video_files, sorted_videos>>

\* a second half run without check=True: a failing tool goes unnoticed
RunFfmpeg_NoCheck ==
    /\ cpc = "run_ffmpeg"
    /\ \/ /\ files' = [files EXCEPT !.output = "new"]
          /\ clog' = Append(clog, "ffmpeg_concat_ok")
       \/ /\ \E out \in {files.output, "partial"} : files' = [files EXCEPT !.output = out]
          /\ clog' = Append(clog, "ffmpeg_concat_failed")
    /\ cpc' = "cleanup"
    /\ UNCHANGED cexit
    /\ UNCHANGED uvars
    /\ UNCHANGED <<input_dir_exists, listing, keep_list, ffmpeg, files0,
                   video_files, sorted_videos>>

\* concat_videos, second half: subprocess.run(cmd, check=True); the tool writes the
\* output, and CalledProcessError ends in sys.exit(1)
RunFfmpeg ==
    /\ cpc = "run_ffmpeg"
    /\ \/ /\ files' = [files EXCEPT !.output = "new"]
          /\ clog' = Append(clog, "ffmpeg_concat_ok")
          /\ cpc' = "cleanup"
          /\ UNCHANGED cexit
       \/ /\ \E out \in {files.output, "partial"} : files' = [files EXCEPT !.output = out]
          /\ clog' = Append(clog, "ffmpeg_concat_failed")
          /\ CExit(1)
    /\ UNCHANGED uvars
    /\ UNCHANGED <<input_dir_exists, listing, keep_list, ffmpeg, files0,
                   video_files, sorted_videos>>

\* if not args.keep_list: os.remove(concat_list_file); then main returns
Cleanup ==
    /\ cpc = "cleanup"
    /\ IF ~keep_list
         THEN /\ files' = [files EXCEPT !.has_manifest = FALSE, !.manifest = <<>>]
              /\ clog' = Append(clog, "remove_manifest")
         ELSE UNCHANGED <<files, clog>>
    /\ CExit(0)
    /\ UNCHANGED uvars
    /\ UNCHANGED <<input_dir_exists, listing, keep_list, ffmpeg, files0,
                   video_files, sorted_videos>>

UIdle ==
    /\ video_file_exists = FALSE
    /\ token_file = [state |-> "absent", cred |-> NoCredentials]
    /\ token_file0 = token_file
    /\ credentials = NoCredentials
    /\ loaded = NoCredentials
    /\ remaining = 0
    /\ response = None
    /\ returned = None
    /\ upc = "idle"
    /\ uexit = NotExited
    /\ ulog = <<>>
    /\ printed = <<>>

ConcatNext ==
    \/ FindVideos
    \/ CheckFound
    \/ SortVideos
    \/ CreateConcatFile
    \/ CheckFfmpeg
    \/ RunFfmpeg
    \/ Cleanup

ConcatInit == CInit /\ UIdle

ConcatSpec == ConcatInit /\ [][ConcatNext]_vars

(***************************************************************************)
(* Properties of the concatenator                                          *)
(***************************************************************************)
\* The claims' own reading of "a regular file whose extension, compared
\* case-insensitively, is in the allow-list": the name ends in one of the
\* extensions and has a stem before it.
EndsWithIgnoringCase(name, ext) ==
    /\ Len(name) > Len(ext)
    /\ Lower(SubSeq(name, Len(name) - Len(ext) + 1, Len(name))) = ext

Recognised(e) == e.is_file /\ \E ext \in VIDEO_EXTENSIONS : EndsWithIgnoringCase(e.name, ext)

NothingToConcat == ~input_dir_exists \/ \A k \in 1..Len(listing) : ~Recognised(listing[k])

ManifestCreated == "write_manifest" \in Range(clog)

\* the part of a path after its last '/'
BaseName(path) ==
    LET slashes == {k \in 1..Len(path) : path[k] = 47}
        last == IF slashes = {} THEN 0 ELSE CHOOSE k \in slashes : \A j \in slashes : j <= k
    IN  SubSeq(path, last + 1, Len(path))

\* the <absolute-path> of a line  file '<absolute-path>'
LinePath(ln) == SubSeq(ln, 7, Len(ln) - 2)

WellFormedLine(ln) ==
    /\ Len(ln) > 8
    /\ SubSeq(ln, 1, 6) = <<102, 105, 108, 101, 32, 39>>
    /\ SubSeq(ln, Len(ln) - 1, Len(ln)) = <<39, 10>>
    /\ LinePath(ln)[1] = 47

\* C1 (as claimed): a run that created the manifest and was started without
\* --keep-list ends with no manifest on disk, whichever way it ends.
C1_ManifestDeletedOnEveryExit ==
    (cpc = "exit" /\ ManifestCreated /\ ~keep_list) => ~files.has_manifest

\* C2: a run on a missing directory, or on one with no recognised video file,
\* exits with code 1, leaves the manifest and the output as it found them and
\* never invokes the tool.
C2_NothingToConcatNoEffect ==
    NothingToConcat =>
        /\ files = files0
        /\ clog = <<>>
        /\ cpc \in {"find", "check_found", "exit"}
        /\ cpc = "exit" => cexit = 1

C2_Witness ==
    /\ cpc = "exit"
    /\ cexit = 1
    /\ input_dir_exists
    /\ Len(listing) >= 2
    /\ NothingToConcat
    /\ files.has_manifest
    /\ files.manifest = StaleManifest

\* C3 (as claimed): the tool-presence check comes before the manifest is
\* created, and a run that fails the check exits 1 leaving no manifest.
C3_ToolCheckedBeforeSideEffects ==
    /\ \A i, j \in 1..Len(clog) :
         (clog[i] = "ffmpeg_version" /\ clog[j] = "write_manifest") => i < j
    /\ (cpc = "exit" /\ ffmpeg = "absent" /\ ~NothingToConcat) =>
         (cexit = 1 /\ ~files.has_manifest)

\* C4: the exit code is 1 exactly when the directory is missing, no video file
\* is found, the tool is missing (or its version check fails) or the tool's
\* concatenation exits non-zero; it is 0 otherwise, and in particular whenever
\* the concatenation succeeded, with or without --keep-list.
C4_ExitCode ==
    cpc = "exit" =>
        /\ cexit = (IF \/ NothingToConcat
                       \/ ffmpeg # "ok"
                       \/ "ffmpeg_concat_failed" \in Range(clog)
                    THEN 1 ELSE 0)
        /\ "ffmpeg_concat_ok" \in Range(clog) => cexit = 0

C4_Witness ==
    /\ cpc = "exit"
    /\ cexit = 0
    /\ keep_list
    /\ "ffmpeg_concat_ok" \in Range(clog)

\* C8: the manifest a run writes has exactly one well-formed line
\* file '<absolute-path>' per recognised regular file of the directory and none
\* for any other entry, in strictly ascending code-point order of the file
\* names, and every other listing order of the same entries gives the same
\* manifest.
C8_ManifestExact ==
    (ManifestCreated /\ files.has_manifest) =>
        LET m == files.manifest
            wanted == {e.name : e \in {x \in Range(listing) : Recognised(x)}}
        IN  /\ Len(m) = Cardinality(wanted)
            /\ \A k \in 1..Len(m) : WellFormedLine(m[k])
            /\ {BaseName(LinePath(m[k])) : k \in 1..Len(m)} = wanted
            /\ \A i, j \in 1..Len(m) :
                 i < j => StrLess(BaseName(LinePath(m[i])), BaseName(LinePath(m[j])))
            /\ \A p \in Permutations(1..Len(listing)) :
                 create_concat_file(sort_videos_by_name(
                     find_videos(TRUE, [k \in 1..Len(listing) |-> listing[p[k]]]))) = m

C8_Witness ==
    /\ cpc = "exit"
    /\ keep_list
    /\ files.has_manifest
    /\ Len(files.manifest) = 2
    /\ Len(listing) = 3
    /\ video_files # sorted_videos
    /\ \E k \in 1..Len(listing) : Suffix(listing[k].name) \notin VIDEO_EXTENSIONS
                                   /\ Recognised(listing[k])

(***************************************************************************)
(* upload_to_youtube.py: main, get_authenticated_service, upload_video     *)
(* Every call into the SDKs or the file system inside main's try block     *)
(* either returns or raises; a raise goes to main's except clause.         *)
(***************************************************************************)
Line(what, id) == [what |-> what, id |-> id]

UInit ==
    /\ video_file_exists \in BOOLEAN
    /\ token_file \in
         {[state |-> st, cred |-> NoCredentials] : st \in {"absent", "corrupt"}}
         \cup {[state |-> "ok", cred |-> c] : c \in CachedCredentials}
    /\ token_file0 = token_file
    /\ credentials = NoCredentials
    /\ loaded = NoCredentials
    /\ remaining = 0
    /\ response = None
    /\ returned = None
    /\ upc = "check_file"
    /\ uexit = NotExited
    /\ ulog = <<>>
    /\ printed = <<>>

CIdle ==
    /\ input_dir_exists = FALSE
    /\ listing = <<>>
    /\ keep_list = FALSE
    /\ ffmpeg = "absent"
    /\ files = [has_manifest |-> FALSE, manifest |-> <<>>, output |-> "absent"]
    /\ files0 = files
    /\ video_files = <<>>
    /\ sorted_videos = <<>>
    /\ cpc = "idle"
    /\ cexit = NotExited
    /\ clog = <<>>

\* an exception leaves the try block for main's except clause
Raise(event) ==
    /\ ulog' = Append(ulog, event)
    /\ upc' = "except"

\* a main that reports the missing file and carries on
U_CheckFile_NoExit ==
    /\ upc = "check_file"
    /\ IF ~video_file_exists
         THEN printed' = Append(printed, Line("not_found", ""))
         ELSE UNCHANGED printed
    /\ upc' = "load_token"
    /\ UNCHANGED cvars
    /\ UNCHANGED <<video_file_exists, token_file, token_file0, credentials, loaded,
                   remaining, response, returned, uexit, ulog>>

\* if not os.path.exists(args.video_file): print(...); sys.exit(1)
U_CheckFile ==
    /\ upc = "check_file"
    /\ IF ~video_file_exists
         THEN /\ printed' = Append(printed, Line("not_found", ""))
              /\ uexit' = 1
              /\ upc' = "exit"
         ELSE /\ upc' = "load_token"
              /\ UNCHANGED <<printed, uexit>>
    /\ UNCHANGED cvars
    /\ UNCHANGED <<video_file_exists, token_file, token_file0, credentials, loaded,
                   remaining, response, returned, ulog>>

\* if os.path.exists('token.pickle'): credentials = pickle.load(token)
U_LoadToken ==
    /\ upc = "load_token"
    /\ \/ /\ token_file.state = "absent"
          /\ ulog' = Append(ulog, "exists_token")
          /\ upc' = "check_valid"
          /\ UNCHANGED <<credentials, loaded>>
       \/ /\ token_file.state = "ok"
          /\ ulog' = ulog \o <<"exists_token", "read_token_ok">>
          /\ credentials' = token_file.cred
          /\ loaded' = token_file.cred
          /\ upc' = "check_valid"
       \/ /\ token_file.state = "corrupt"
          /\ ulog' = ulog \o <<"exists_token", "read_token_raise">>
          /\ upc' = "except"
          /\ UNCHANGED <<credentials, loaded>>
    /\ UNCHANGED cvars
    /\ UNCHANGED <<video_file_exists, token_file, token_file0,
                   remaining, response, returned, uexit, printed>>

\* a guard that obtains a credential on every run
NeedsAuth_Always(c) == TRUE

\* if not credentials or not credentials.valid
NeedsAuth(c) == ~c.present \/ ~Valid(c)

\* a guard that forgets credentials.refresh_token
Refreshable_NoTokenCheck(c) == c.present /\ c.expired

\* if credentials and credentials.expired and credentials.refresh_token
Refreshable(c) == c.present /\ c.expired /\ c.refresh_token

U_CheckValid ==
    /\ upc = "check_valid"
    /\ upc' = IF NeedsAuth(credentials)
                THEN (IF Refreshable(credentials) THEN "refresh" ELSE "flow")
                ELSE "build"
    /\ UNCHANGED cvars
    /\ UNCHANGED <<video_file_exists, token_file, token_file0, credentials, loaded,
                   remaining, response, returned, uexit, ulog, printed>>

\* credentials.refresh(Request())
U_Refresh ==
    /\ upc = "refresh"
    /\ \/ /\ credentials' = [credentials EXCEPT !.token = TRUE, !.expired = FALSE]
          /\ ulog' = Append(ulog, "refresh_ok")
          /\ upc' = "save_token"
       \/ /\ Raise("refresh_raise")
          /\ UNCHANGED credentials
    /\ UNCHANGED cvars
    /\ UNCHANGED <<video_file_exists, token_file, token_file0, loaded,
                   remaining, response, returned, uexit, printed>>

\* flow = InstalledAppFlow.from_client_secrets_file(...); credentials = flow.run_local_server(port=0)
U_Flow ==
    /\ upc = "flow"
    /\ \/ /\ \E rt \in BOOLEAN :
               credentials' = [present |-> TRUE, token |-> TRUE, expired |-> FALSE,
                               refresh_token |-> rt]
          /\ ulog' = Append(ulog, "flow_ok")
          /\ upc' = "save_token"
       \/ /\ Raise("flow_raise")
          /\ UNCHANGED credentials
    /\ UNCHANGED cvars
    /\ UNCHANGED <<video_file_exists, token_file, token_file0, loaded,
                   remaining, response, returned, uexit, printed>>

\* with open('token.pickle', 'wb') as token: pickle.dump(credentials, token)
\* a write that raises leaves the file as it was (open failed) or cut short
U_SaveToken ==
    /\ upc = "save_token"
    /\ \/ /\ token_file' = [state |-> "ok", cred |-> credentials]
          /\ ulog' = Append(ulog, "write_token_ok")
          /\ upc' = "build"
       \/ /\ \E tf \in {token_file, [state |-> "corrupt", cred |-> NoCredentials]} :
               token_file' = tf
          /\ Raise("write_token_raise")
    /\ UNCHANGED cvars
    /\ UNCHANGED <<video_file_exists, token_file0, credentials, loaded,
                   remaining, response, returned, uexit, printed>>

\* return build('youtube', 'v3', credentials=credentials)
U_Build ==
    /\ upc = "build"
    /\ \/ /\ ulog' = Append(ulog, "build_ok")
          /\ upc' = "insert"
       \/ Raise("build_raise")
    /\ UNCHANGED cvars
    /\ UNCHANGED <<video_file_exists, token_file, token_file0, credentials, loaded,
                   remaining, response, returned, uexit, printed>>

\* upload_video up to the loop: MediaFileUpload(...), youtube.videos().insert(...),
\* print('uploading'), response = None.  remaining is the number of next_chunk
\* calls the service needs for this file.
U_Insert ==
    /\ upc = "insert"
    /\ \/ /\ \E n \in 1..MaxChunks : remaining' = n
          /\ ulog' = Append(ulog, "insert_ok")
          /\ printed' = Append(printed, Line("uploading", ""))
          /\ response' = None
          /\ upc' = "poll"
       \/ /\ Raise("insert_raise")
          /\ UNCHANGED <<remaining, printed, response>>
    /\ UNCHANGED cvars
    /\ UNCHANGED <<video_file_exists, token_file, token_file0, credentials, loaded,
                   returned, uexit>>

\* a loop that prints the progress line whatever status is
ProgressPrinted_Always(status, out) == Append(out, Line("progress", ""))

\* if status: print(progress)
ProgressPrinted(status, out) == IF status THEN Append(out, Line("progress", "")) ELSE out

\* while response is None: status, response = request.next_chunk(); if status: print
\* status is TRUE for a progress object and FALSE for None
U_NextChunk ==
    /\ upc = "poll"
    /\ response = None
    /\ \/ /\ Raise("next_chunk_raise")
          /\ UNCHANGED <<remaining, response, printed>>
       \/ /\ remaining > 1
          /\ \E status \in BOOLEAN :
               /\ ulog' = Append(ulog, IF status THEN "next_chunk_status" ELSE "next_chunk_nostatus")
               /\ printed' = ProgressPrinted(status, printed)
          /\ remaining' = remaining - 1
          /\ upc' = "poll"
          /\ UNCHANGED response
       \/ /\ remaining = 1
          /\ \E status \in BOOLEAN :
               /\ ulog' = Append(ulog, IF status THEN "next_chunk_status" ELSE "next_chunk_nostatus")
               /\ printed' = ProgressPrinted(status, printed)
          /\ \E id \in VideoIds : response' = id
          /\ remaining' = 0
          /\ upc' = "report"
    /\ UNCHANGED cvars
    /\ UNCHANGED <<video_file_exists, token_file, token_file0, credentials, loaded,
                   returned, uexit>>

\* print(id); print(url); return response['id'] -- and main returns: exit code 0
U_Report ==
    /\ upc = "report"
    /\ printed' = printed \o <<Line("video_id", response), Line("url", response)>>
    /\ returned' = response
    /\ uexit' = 0
    /\ upc' = "exit"
    /\ UNCHANGED cvars
    /\ UNCHANGED <<video_file_exists, token_file, token_file0, credentials, loaded,
                   remaining, response, ulog>>

\* an except clause that reports the error and lets main return
U_Except_NoExit ==
    /\ upc = "except"
    /\ printed' = Append(printed, Line("error", ""))
    /\ uexit' = 0
    /\ upc' = "exit"
    /\ UNCHANGED cvars
    /\ UNCHANGED <<video_file_exists, token_file, token_file0, credentials, loaded,
                   remaining, response, returned, ulog>>

\* except Exception as e: print(error); sys.exit(1)
U_Except ==
    /\ upc = "except"
    /\ printed' = Append(printed, Line("error", ""))
    /\ uexit' = 1
    /\ upc' = "exit"
    /\ UNCHANGED cvars
    /\ UNCHANGED <<video_file_exists, token_file, token_file0, credentials, loaded,
                   remaining, response, returned, ulog>>

UploadNext ==
    \/ U_CheckFile
    \/ U_LoadToken
    \/ U_CheckValid
    \/ U_Refresh
    \/ U_Flow
    \/ U_SaveToken
    \/ U_Build
    \/ U_Insert
    \/ U_NextChunk
    \/ U_Report
    \/ U_Except

UploadInit == UInit /\ CIdle

UploadSpec == UploadInit /\ [][UploadNext]_vars

\* the script is one sequential process that runs until it exits
UploadLiveSpec == UploadSpec /\ WF_vars(UploadNext)

(***************************************************************************)
(* Properties of the uploader                                              *)
(***************************************************************************)
Logged(event) == event \in Range(ulog)

\* how many entries of seq are in S
Count(seq, S) == Cardinality({k \in 1..Len(seq) : seq[k] \in S})

Before(e1, e2) == \E i, j \in 1..Len(ulog) : i < j /\ ulog[i] = e1 /\ ulog[j] = e2

RaiseEvents ==
    {"read_token_raise", "refresh_raise", "flow_raise", "write_token_raise",
     "build_raise", "insert_raise", "next_chunk_raise"}

ChunkReturns == {"next_chunk_status", "next_chunk_nostatus"}

UploadEvents == {"insert_ok", "insert_raise", "next_chunk_raise"} \cup ChunkReturns

RefreshStarted == upc = "refresh" \/ Logged("refresh_ok") \/ Logged("refresh_raise")

FlowStarted == upc = "flow" \/ Logged("flow_ok") \/ Logged("flow_raise")

WriteDone == Logged("write_token_ok") \/ Logged("write_token_raise")

\* the run is past the test of line 29
Decided ==
    \/ upc \in {"refresh", "flow", "save_token", "build", "insert", "poll", "report"}
    \/ \E k \in 1..Len(ulog) : ulog[k] \notin {"exists_token", "read_token_ok", "read_token_raise"}

PrintedWhat(w) == {k \in 1..Len(printed) : printed[k].what = w}

\* C5: when video_file does not exist the run ends with exit code 1 and has
\* touched nothing: no look at or write of the credential cache, no refresh,
\* no authorization flow, no client, no upload request.
C5_MissingFileNoInteraction ==
    ~video_file_exists =>
        /\ ulog = <<>>
        /\ token_file = token_file0
        /\ credentials = NoCredentials
        /\ upc \in {"check_file", "exit"}
        /\ upc = "exit" => uexit = 1

C5_Witness ==
    /\ ~video_file_exists
    /\ upc = "exit"
    /\ uexit = 1
    /\ token_file.state = "ok"
    /\ printed = <<Line("not_found", "")>>

\* C6: a refresh is started exactly when the cached credential exists, is
\* expired and has a refresh token; the authorization flow is started in every
\* other not-valid case; and the client is built either with the credential
\* valid as loaded, or after a successful refresh or flow whose credential was
\* written to the cache first.  Upload requests come after the client.
C6_CredentialValidOrObtained ==
    /\ RefreshStarted <=>
         (Decided /\ loaded.present /\ loaded.expired /\ loaded.refresh_token)
    /\ FlowStarted <=>
         (Decided /\ ~(loaded.present /\ loaded.token /\ ~loaded.expired)
                  /\ ~(loaded.present /\ loaded.expired /\ loaded.refresh_token))
    /\ (Logged("build_ok") \/ Logged("build_raise") \/ upc = "build") =>
         \/ /\ loaded.present /\ loaded.token /\ ~loaded.expired
            /\ credentials = loaded
            /\ ~WriteDone
         \/ /\ Before("refresh_ok", "write_token_ok") \/ Before("flow_ok", "write_token_ok")
            /\ token_file = [state |-> "ok", cred |-> credentials]
            /\ credentials.present /\ credentials.token /\ ~credentials.expired
            /\ \A k \in 1..Len(ulog) :
                 ulog[k] \in {"build_ok", "build_raise"} =>
                     \E j \in 1..(k - 1) : ulog[j] = "write_token_ok"
    /\ \A k \in 1..Len(ulog) :
         ulog[k] \in UploadEvents => \E j \in 1..(k - 1) : ulog[j] = "build_ok"

C6_Witness ==
    /\ upc = "exit"
    /\ uexit = 0
    /\ loaded.present /\ loaded.expired /\ loaded.refresh_token
    /\ Before("refresh_ok", "write_token_ok")
    /\ Before("write_token_ok", "build_ok")

\* C7: an exception anywhere in the authentication or the upload ends the run:
\* nothing is called after the call that raised (no retry), the error is
\* reported, the exit code is 1 and no video id or URL is printed.
C7_ExceptionExitsOne ==
    (\E k \in 1..Len(ulog) : ulog[k] \in RaiseEvents) =>
        /\ ulog[Len(ulog)] \in RaiseEvents
        /\ Count(ulog, RaiseEvents) = 1
        /\ upc \in {"except", "exit"}
        /\ upc = "exit" =>
             /\ uexit = 1
             /\ printed[Len(printed)] = Line("error", "")
        /\ PrintedWhat("video_id") = {}
        /\ PrintedWhat("url") = {}

C7_Witness ==
    /\ upc = "exit"
    /\ uexit = 1
    /\ Len(ulog) > 1
    /\ ulog[Len(ulog)] = "next_chunk_raise"
    /\ ulog[Len(ulog) - 1] = "next_chunk_status"

\* what C9 and its amendment share: polling goes on exactly while there is no
\* response; the id and the URL are printed once, only once a response is
\* there, and the function returns that response's id.
UploadLoopSafety ==
    /\ upc = "poll" => response = None
    /\ response # None => upc \in {"report", "exit"}
    /\ PrintedWhat("video_id") # {} =>
         /\ response \in VideoIds
         /\ Cardinality(PrintedWhat("video_id")) = 1
         /\ Cardinality(PrintedWhat("url")) = 1
         /\ \A k \in PrintedWhat("video_id") \cup PrintedWhat("url") : printed[k].id = response
         /\ returned = response
    /\ (upc = "exit" /\ response # None) =>
         /\ uexit = 0
         /\ returned = response
         /\ PrintedWhat("video_id") # {}
    /\ returned # None => upc = "exit"

\* C9 (as claimed): a progress line after every next_chunk call that returned,
\* the completing one included.
C9_ProgressAfterEveryChunk ==
    /\ UploadLoopSafety
    /\ Cardinality(PrintedWhat("progress")) = Count(ulog, ChunkReturns)

\* C9 (amended): a progress line after exactly the next_chunk calls that
\* returned a status object; the rest as claimed, and the loop, once entered,
\* ends: with the response's id returned unless next_chunk raised.
C9_ProgressAfterStatusChunks ==
    /\ [](/\ UploadLoopSafety
          /\ Cardinality(PrintedWhat("progress")) = Count(ulog, {"next_chunk_status"}))
    /\ (upc = "poll") ~> (upc = "exit" /\ (Logged("next_chunk_raise") \/ returned = response))

C9_Witness ==
    /\ upc = "exit"
    /\ uexit = 0
    /\ returned \in VideoIds
    /\ Len(ulog) > 1
    /\ ulog[Len(ulog)] = "next_chunk_nostatus"
    /\ ulog[Len(ulog) - 1] = "next_chunk_status"
    /\ Cardinality(PrintedWhat("progress")) = 1

====
